---- MODULE Spec2Model ----
(***************************************************************************)
(* Model of the script-provisioning service of src/src/main.rs: the       *)
(* provision and get_logs handlers, the detached background task of every  *)
(* accepted job, the blocking-pool closure that runs the subprocess, and   *)
(* the job store behind its tokio Mutex.                                   *)
(*                                                                         *)
(* Strings are sequences of one-character strings, byte buffers are        *)
(* sequences of integers, Option<T> is << >> (None) or <<x>> (Some(x)).    *)
(***************************************************************************)
EXTENDS Integers, Sequences, FiniteSets, TLC

(***************************************************************************)
(* Bounds of the model.                                                    *)
(***************************************************************************)
MaxJobs == 2            \* provision requests (slots 1..MaxJobs)
MaxGets == 1            \* get_logs requests
MaxExit == 1            \* largest exit code a script returns
TicksPerTimeout == 1    \* clock ticks that make up the timeout
PoolSize == 1           \* threads of the blocking-operation pool

TIMEOUT_SECS == 300     \* Duration::from_secs(300)
TickSecs == TIMEOUT_SECS \div TicksPerTimeout
\* The first tick at which TIMEOUT_SECS have elapsed, and the last at which
\* no more than TIMEOUT_SECS have.
DueTicks == (TIMEOUT_SECS + TickSecs - 1) \div TickSecs
LastTickWithin == TIMEOUT_SECS \div TickSecs

Provs == 1..MaxJobs
Gets == 1..MaxGets

None == << >>
Some(x) == <<x>>

(***************************************************************************)
(* String helpers: str::contains and str::starts_with.                     *)
(***************************************************************************)
IsPrefixAt(pat, s, i) ==
    /\ i + Len(pat) - 1 <= Len(s)
    /\ \A k \in 1..Len(pat) : s[i + k - 1] = pat[k]

Contains(s, pat) == \E i \in 1..(Len(s) + 1) : IsPrefixAt(pat, s, i)

StartsWith(s, pat) == IsPrefixAt(pat, s, 1)

(***************************************************************************)
(* The file system the service runs on.  allowed_script_dir is written "s" *)
(* for "./allowed_scripts"; FileTable lists what exists, by joined path.   *)
(***************************************************************************)
AllowedDir == <<"s">>

CleanText == <<"l", "s">>
RmText == <<"r", "m", " ", "-", "r", "f", " ", "/", "*">>

FileTable ==
    { [path |-> <<"s", "/", "a">>, is_file |-> TRUE, mode |-> 493, content |-> CleanText],
      [path |-> <<"s", "/", "b">>, is_file |-> TRUE, mode |-> 493, content |-> RmText],
      [path |-> <<"s", "/", "c">>, is_file |-> TRUE, mode |-> 420, content |-> CleanText],
      [path |-> <<"s", "/", "d">>, is_file |-> FALSE, mode |-> 493, content |-> << >>],
      [path |-> <<"s", "/", ".", ".", "/", "x">>, is_file |-> TRUE, mode |-> 493,
       content |-> CleanText],
      [path |-> <<"/", "x">>, is_file |-> TRUE, mode |-> 493, content |-> CleanText] }

Exists(full) == \E f \in FileTable : f.path = full
FileAt(full) == CHOOSE f \in FileTable : f.path = full

\* PathBuf::join: an absolute argument replaces the base.
Join(dir, p) == IF StartsWith(p, <<"/">>) THEN p ELSE dir \o <<"/">> \o p

\* Path::starts_with: whole components of dir are a prefix of full.
PathStartsWith(full, dir) ==
    /\ StartsWith(full, dir)
    /\ Len(full) = Len(dir) \/ full[Len(dir) + 1] = "/"

\* mode & 0o111: some execute bit is set.
ExecBits(mode) ==
    (IF (mode \div 64) % 2 = 1 THEN 64 ELSE 0)
    + (IF (mode \div 8) % 2 = 1 THEN 8 ELSE 0)
    + (IF mode % 2 = 1 THEN 1 ELSE 0)

Ok(v) == [ok |-> TRUE, val |-> v]
Err(e) == [ok |-> FALSE, val |-> e]

\* Variant of validate_script_path without the check of line 82.
ValidateScriptPathNoTraversal(script_path, allowed_dir) ==
    LET full_path == Join(allowed_dir, script_path) IN
    IF ~PathStartsWith(full_path, allowed_dir)
    THEN Err("Script path outside allowed directory")
    ELSE IF ~Exists(full_path)
    THEN Err("Script file does not exist")
    ELSE IF ~FileAt(full_path).is_file
    THEN Err("Path is not a regular file")
    ELSE IF ExecBits(FileAt(full_path).mode) = 0
    THEN Err("Script is not executable")
    ELSE Ok(full_path)

(***************************************************************************)
(* validate_script_path                                                    *)
(***************************************************************************)
ValidateScriptPath(script_path, allowed_dir) ==
    IF Contains(script_path, <<".", ".">>) \/ StartsWith(script_path, <<"/">>)
    THEN Err("Invalid script path: path traversal detected")
    ELSE LET full_path == Join(allowed_dir, script_path) IN
         IF ~PathStartsWith(full_path, allowed_dir)
         THEN Err("Script path outside allowed directory")
         ELSE IF ~Exists(full_path)
         THEN Err("Script file does not exist")
         ELSE IF ~FileAt(full_path).is_file
         THEN Err("Path is not a regular file")
         ELSE IF ExecBits(FileAt(full_path).mode) = 0
         THEN Err("Script is not executable")
         ELSE Ok(full_path)

(***************************************************************************)
(* scan_script_for_dangerous_patterns: the denylist in source order, each  *)
(* entry matched as a literal substring; the first match is reported.      *)
(***************************************************************************)
dangerous_patterns ==
    << 
       [pattern |-> <<"r", "m", " ", "-", "r", "f", " ", "/">>,
        description |-> "Dangerous recursive delete"],
       [pattern |-> <<"r", "m", " ", "-", "r", "f", " ", "/", "*">>,
        description |-> "Dangerous recursive delete"],
       [pattern |-> <<":", "(", ")", "{", ":", "|", ":", "&", "}", ";", ":">>,
        description |-> "Fork bomb detected"],
       [pattern |-> <<"c", "u", "r", "l", ".", "*", "\\", "|", ".", "*", "s", "h">>,
        description |-> "Piped execution from web"],
       [pattern |-> <<"w", "g", "e", "t", ".", "*", "\\", "|", ".", "*", "s", "h">>,
        description |-> "Piped execution from web"],
       [pattern |-> <<"d", "d", " ", "i", "f", "=", "/", "d", "e", "v", "/">>,
        description |-> "Direct disk access"],
       [pattern |-> <<"m", "k", "f", "s">>,
        description |-> "Filesystem creation"],
       [pattern |-> <<"f", "d", "i", "s", "k">>,
        description |-> "Disk partitioning"],
       [pattern |-> <<"f", "o", "r", "m", "a", "t">>,
        description |-> "Disk formatting"],
       [pattern |-> <<"/", "e", "t", "c", "/", "p", "a", "s", "s", "w", "d">>,
        description |-> "Access to password file"],
       [pattern |-> <<"s", "u", "d", "o">>,
        description |-> "Privilege escalation"],
       [pattern |-> <<"s", "u", " ">>,
        description |-> "User switching"],
       [pattern |-> <<"c", "h", "m", "o", "d", " ", "7", "7", "7">>,
        description |-> "Dangerous permission change"],
       [pattern |-> <<"c", "h", "o", "w", "n">>,
        description |-> "Ownership change"] >>

\* Variant of the loop of lines 135-142 that reports the last entry of the
\* list that the content contains.
LastMatch(script_content) ==
    LET hits == { i \in 1..Len(dangerous_patterns) :
                    Contains(script_content, dangerous_patterns[i].pattern) }
    IN  IF hits = {} THEN 0 ELSE CHOOSE i \in hits : \A k \in hits : i >= k

FirstMatch(script_content) ==
    LET hits == { i \in 1..Len(dangerous_patterns) :
                    Contains(script_content, dangerous_patterns[i].pattern) }
    IN  IF hits = {} THEN 0 ELSE CHOOSE i \in hits : \A k \in hits : i <= k

ScanScript(script_content) ==
    LET i == FirstMatch(script_content) IN
    IF i = 0 THEN Ok(<< >>)
    ELSE Err([msg |-> "Blocked dangerous pattern",
              pattern |-> dangerous_patterns[i].pattern,
              description |-> dangerous_patterns[i].description])

\* validate_script: read the file, then scan it.
ValidateScript(full_path) == ScanScript(FileAt(full_path).content)

(***************************************************************************)
(* String::from_utf8_lossy on byte sequences made of ASCII bytes, two-byte  *)
(* sequences and bytes that are never valid, and the UTF-8 encoding of the *)
(* decoded String.                                                         *)
(***************************************************************************)
REPLACEMENT_CHARACTER == 65533

RECURSIVE FromUtf8Lossy(_)
FromUtf8Lossy(bytes) ==
    IF bytes = << >> THEN << >>
    ELSE IF bytes[1] < 128 THEN <<bytes[1]>> \o FromUtf8Lossy(Tail(bytes))
    ELSE IF /\ bytes[1] \in 194..223
            /\ Len(bytes) >= 2
            /\ bytes[2] \in 128..191
    THEN <<(bytes[1] - 192) * 64 + (bytes[2] - 128)>>
         \o FromUtf8Lossy(SubSeq(bytes, 3, Len(bytes)))
    ELSE <<REPLACEMENT_CHARACTER>> \o FromUtf8Lossy(Tail(bytes))

RECURSIVE Utf8Encode(_)
Utf8Encode(chars) ==
    IF chars = << >> THEN << >>
    ELSE LET c == chars[1] IN
         (IF c < 128 THEN <<c>>
          ELSE IF c < 2048 THEN <<192 + (c \div 64), 128 + (c % 64)>>
          ELSE <<224 + (c \div 4096), 128 + ((c \div 64) % 64), 128 + (c % 64)>>)
         \o Utf8Encode(Tail(chars))

\* What a script prints, as <<stdout bytes, stderr bytes>>: nothing; valid
\* UTF-8 ("a", e-acute); bytes that are not UTF-8.
Outputs ==
    { << << >>, << >> >>,
      << <<97, 195, 169>>, <<97>> >>,
      << <<97, 255>>, <<195>> >> }

(***************************************************************************)
(* JobLog, JobStatus and JobLog::default                                   *)
(***************************************************************************)
JobLogDefault ==
    [status |-> "running", stdout |-> << >>, stderr |-> << >>,
     exit_code |-> None, error_message |-> None]

IsTerminal(status) == status \in {"completed", "failed", "timedout"}

(***************************************************************************)
(* std::process::ExitStatus: code() is Some(n) after a normal exit and     *)
(* None after termination by a signal; success() is exit code 0.           *)
(***************************************************************************)
ExitStatuses == { [code |-> Some(n)] : n \in 0..MaxExit } \cup { [code |-> None] }

\* What the blocking closure hands back: cmd.output() as Ok(Output) or
\* Err(io::Error), or the JoinError of a closure that did not run to its end.
NoResult == [kind |-> "none"]
OutputResult(st, out, err) ==
    [kind |-> "output", status |-> st, stdout |-> out, stderr |-> err]
IoErrorResult == [kind |-> "io_error"]
\* The Output of a closure whose JoinHandle was dropped: only the fact of
\* the exit and its status remain.
DroppedResult(st) == [kind |-> "dropped", status |-> st]
JoinErrorResult == [kind |-> "join_error"]

\* Variant of success() that takes every normal exit for a success.
SuccessIfExited(status) == status.code # None

Success(status) == status.code = Some(0)

\* Variant of the Ok(Ok(Ok(output))) arm that leaves exit_code unset.
JobLogOfResultNoCode(result) ==
    IF result.kind = "output"
    THEN [status |-> IF result.status.code = Some(0) THEN "completed" ELSE "failed",
          stdout |-> FromUtf8Lossy(result.stdout),
          stderr |-> FromUtf8Lossy(result.stderr),
          exit_code |-> None,
          error_message |-> None]
    ELSE IF result.kind = "io_error"
    THEN [JobLogDefault EXCEPT !.status = "failed",
              !.error_message = Some("Failed to execute script")]
    ELSE [JobLogDefault EXCEPT !.status = "failed",
              !.error_message = Some("Failed to spawn blocking task")]

\* The match on timeout(...).await for the three Ok(..) arms (lines 230-247).
JobLogOfResult(result) ==
    IF result.kind = "output"
    THEN [status |-> IF Success(result.status) THEN "completed" ELSE "failed",
          stdout |-> FromUtf8Lossy(result.stdout),
          stderr |-> FromUtf8Lossy(result.stderr),
          exit_code |-> result.status.code,
          error_message |-> None]
    ELSE IF result.kind = "io_error"
    THEN [JobLogDefault EXCEPT !.status = "failed",
              !.error_message = Some("Failed to execute script")]
    ELSE [JobLogDefault EXCEPT !.status = "failed",
              !.error_message = Some("Failed to spawn blocking task")]

\* Variant of the Err(_) arm that reports the timeout as a plain failure.
JobLogTimedOutAsFailed ==
    [JobLogDefault EXCEPT !.status = "failed",
         !.error_message = Some("Script execution timed out after 5 minutes")]

\* The Err(_) arm (lines 248-252).
JobLogTimedOut ==
    [JobLogDefault EXCEPT !.status = "timedout",
         !.error_message = Some("Script execution timed out after 5 minutes")]

\* Variant of the argument check without the test for '|'.
ArgInvalidNoPipe(arg) ==
    \/ Contains(arg, <<".", ".">>)
    \/ Contains(arg, <<";">>)

\* The argument check of lines 217-219.
ArgInvalid(arg) ==
    \/ Contains(arg, <<".", ".">>)
    \/ Contains(arg, <<";">>)
    \/ Contains(arg, <<"|">>)

HasInvalidArg(args) == \E i \in 1..Len(args) : ArgInvalid(args[i])

\* Variant of lines 218-219 that also records an exit code.
JobLogInvalidArgWithCode ==
    [JobLogDefault EXCEPT !.status = "failed",
         !.exit_code = Some(1),
         !.error_message = Some("Invalid argument detected")]

JobLogInvalidArg ==
    [JobLogDefault EXCEPT !.status = "failed",
         !.error_message = Some("Invalid argument detected")]

(***************************************************************************)
(* Job identifiers.  Uuid::new_v4().to_string() is the lower-case          *)
(* hyphenated form of a fresh value; Uuid::parse_str also accepts the      *)
(* simple form (no hyphens) of the same value.                             *)
(***************************************************************************)
JobIdOf(r) == [val |-> r, form |-> "hyphenated"]
JobIdStrings ==
    { [val |-> v, form |-> f] : v \in 0..MaxJobs, f \in {"hyphenated", "simple"} }
    \cup { [val |-> 0, form |-> "malformed"] }
ParseStr(job_id) == IF job_id.form = "malformed" THEN Err("invalid") ELSE Ok(job_id.val)

(***************************************************************************)
(* Inputs of the requests.                                                 *)
(***************************************************************************)
ScriptPaths ==
    { <<"a">>, <<"b">>, <<"c">>, <<"d">>, <<"e">>,
      <<".", ".", "/", "x">>, <<"/", "x">> }

ArgLists ==
    { << <<"x">> >>,
      << <<"x">>, <<"a", ";">> >>,
      << <<"|", "a">> >>,
      << <<".", ".">> >> }

(***************************************************************************)
(* State.                                                                  *)
(*   logs      AppState.logs: the HashMap behind the Mutex                 *)
(*   lock      the holder of the Mutex, or Free                            *)
(*   prov      the provision requests, by slot                             *)
(*   task      the background task tokio::spawn starts for a job           *)
(*   blocking  the spawn_blocking closure of a job and its subprocess      *)
(*   get       the get_logs requests, by slot                              *)
(***************************************************************************)
VARIABLES logs, lock, prov, task, blocking, get

vars == <<logs, lock, prov, task, blocking, get>>

Free == << >>

NoResp == [code |-> 0]
BadRequest(reason) == [code |-> 400, body |-> reason]
NotFound == [code |-> 404, body |-> "Job not found"]
OkJson(body) == [code |-> 200, body |-> body]

Insert(map, key, value) ==
    [k \in DOMAIN map \cup {key} |-> IF k = key THEN value ELSE map[k]]

Init ==
    /\ logs = << >>
    /\ lock = Free
    /\ prov = [r \in Provs |->
                 [pc |-> "idle", script_path |-> << >>, args |-> << >>,
                  resp |-> NoResp]]
    /\ task = [j \in Provs |->
                 [pc |-> "none", job_log |-> JobLogDefault, elapsed |-> 0]]
    /\ blocking = [j \in Provs |-> [st |-> "none", ran |-> 0, result |-> NoResult]]
    /\ get = [g \in Gets |->
                [pc |-> "idle", job_id |-> JobIdOf(0), known |-> FALSE,
                 resp |-> NoResp]]

(***************************************************************************)
(* provision (lines 182-262)                                               *)
(***************************************************************************)
\* Lines 186-197: both validations, then the fresh job_id; the handler then
\* awaits the store lock.
Provision(r, script_path, args) ==
    /\ prov[r].pc = "idle"
    /\ IF r = 1 THEN TRUE ELSE prov[r - 1].pc # "idle"
    /\ LET checked == ValidateScriptPath(script_path, AllowedDir) IN
       IF ~checked.ok
       THEN prov' = [prov EXCEPT ![r] = [@ EXCEPT !.pc = "done",
                         !.script_path = script_path,
                         !.resp = BadRequest(checked.val)]]
       ELSE LET scanned == ValidateScript(checked.val) IN
            IF ~scanned.ok
            THEN prov' = [prov EXCEPT ![r] = [@ EXCEPT !.pc = "done",
                              !.script_path = script_path,
                              !.resp = BadRequest(scanned.val)]]
            ELSE prov' = [prov EXCEPT ![r] = [@ EXCEPT !.pc = "lock",
                              !.script_path = script_path, !.args = args]]
    /\ UNCHANGED <<logs, lock, task, blocking, get>>

\* Line 201: state.logs.lock().await resolves.
ProvAcquire(r) ==
    /\ prov[r].pc = "lock"
    /\ lock = Free
    /\ lock' = <<"prov", r>>
    /\ prov' = [prov EXCEPT ![r].pc = "holding"]
    /\ UNCHANGED <<logs, task, blocking, get>>

\* Variant of lines 200-203 that takes and drops the guard without inserting.
ProvInsertNothing(r) ==
    /\ prov[r].pc = "holding"
    /\ lock = <<"prov", r>>
    /\ lock' = Free
    /\ prov' = [prov EXCEPT ![r].pc = "spawn"]
    /\ UNCHANGED <<logs, task, blocking, get>>

\* Lines 202-203: insert the default JobLog, drop the guard.
ProvInsert(r) ==
    /\ prov[r].pc = "holding"
    /\ lock = <<"prov", r>>
    /\ logs' = Insert(logs, JobIdOf(r), JobLogDefault)
    /\ lock' = Free
    /\ prov' = [prov EXCEPT ![r].pc = "spawn"]
    /\ UNCHANGED <<task, blocking, get>>

\* Lines 205-261: tokio::spawn of the background task, then the response.
ProvSpawn(r) ==
    /\ prov[r].pc = "spawn"
    /\ task' = [task EXCEPT ![r].pc = "start"]
    /\ prov' = [prov EXCEPT ![r] = [@ EXCEPT !.pc = "done",
                     !.resp = OkJson([job_id |-> JobIdOf(r), status |-> "running"])]]
    /\ UNCHANGED <<logs, lock, blocking, get>>

\* Variant with a suspension point between the insert of line 202 and the
\* tokio::spawn of line 209, at which the request future can be dropped too.
ProvCancelAfterInsert(r) ==
    /\ prov[r].pc \in {"lock", "spawn"}
    /\ prov' = [prov EXCEPT ![r].pc = "cancelled"]
    /\ UNCHANGED <<logs, lock, task, blocking, get>>

\* Variant in which the job body runs inside the request future instead of
\* a spawned task: dropping the request also drops the job under way.
ProvCancelAborts(r) ==
    \/ /\ prov[r].pc = "lock"
       /\ prov' = [prov EXCEPT ![r].pc = "cancelled"]
       /\ UNCHANGED <<logs, lock, task, blocking, get>>
    \/ /\ prov[r].pc = "done"
       /\ task[r].pc \in {"start", "waiting", "lock"}
       /\ prov' = [prov EXCEPT ![r].pc = "cancelled"]
       /\ task' = [task EXCEPT ![r].pc = "none"]
       /\ UNCHANGED <<logs, lock, blocking, get>>

\* The request future is dropped (client gone) at its one suspension point.
ProvCancel(r) ==
    /\ prov[r].pc = "lock"
    /\ prov' = [prov EXCEPT ![r].pc = "cancelled"]
    /\ UNCHANGED <<logs, lock, task, blocking, get>>

(***************************************************************************)
(* The background task of job j (lines 209-256)                            *)
(***************************************************************************)
\* Variant of lines 210-229 in which the task takes the store guard before
\* the argument loop and keeps it across the wait for the subprocess.
TaskCheckArgsHoldingLock(j) ==
    /\ task[j].pc = "start"
    /\ lock = Free
    /\ IF HasInvalidArg(prov[j].args)
       THEN /\ task' = [task EXCEPT ![j] = [@ EXCEPT !.pc = "lock",
                            !.job_log = JobLogInvalidArg]]
            /\ UNCHANGED <<blocking, lock>>
       ELSE /\ task' = [task EXCEPT ![j] = [@ EXCEPT !.pc = "waiting", !.elapsed = 0]]
            /\ blocking' = [blocking EXCEPT ![j].st = "queued"]
            /\ lock' = <<"task", j>>
    /\ UNCHANGED <<logs, prov, get>>

\* Lines 210-227: the argument loop; on a bad argument the task goes to the
\* store with a Failed log, otherwise it queues cmd.output() on the blocking
\* pool and starts the timeout.
TaskCheckArgs(j) ==
    /\ task[j].pc = "start"
    /\ IF HasInvalidArg(prov[j].args)
       THEN /\ task' = [task EXCEPT ![j] = [@ EXCEPT !.pc = "lock",
                            !.job_log = JobLogInvalidArg]]
            /\ UNCHANGED blocking
       ELSE /\ task' = [task EXCEPT ![j] = [@ EXCEPT !.pc = "waiting", !.elapsed = 0]]
            /\ blocking' = [blocking EXCEPT ![j].st = "queued"]
    /\ UNCHANGED <<logs, lock, prov, get>>

\* The deadline of timeout(Duration::from_secs(300), ..) has been reached.
TimerDue(j) == task[j].elapsed >= DueTicks

\* Variant of lines 229-247 that also puts the log into the store at once.
TaskOutputWritesThrough(j) ==
    /\ task[j].pc = "waiting"
    /\ blocking[j].st = "finished"
    /\ task' = [task EXCEPT ![j] = [@ EXCEPT !.pc = "lock",
                    !.job_log = JobLogOfResult(blocking[j].result)]]
    /\ logs' = Insert(logs, JobIdOf(j), JobLogOfResult(blocking[j].result))
    /\ UNCHANGED <<lock, prov, blocking, get>>

\* Lines 229-247: the blocking closure's result arrives first.
TaskOutput(j) ==
    /\ task[j].pc = "waiting"
    /\ blocking[j].st = "finished"
    /\ task' = [task EXCEPT ![j] = [@ EXCEPT !.pc = "lock",
                    !.job_log = JobLogOfResult(blocking[j].result)]]
    /\ UNCHANGED <<logs, lock, prov, blocking, get>>

\* Variant of the Err(_) arm that ends the task without the write of line 255.
TaskElapsedNoWrite(j) ==
    /\ task[j].pc = "waiting"
    /\ TimerDue(j)
    /\ task' = [task EXCEPT ![j] = [@ EXCEPT !.pc = "done", !.job_log = JobLogTimedOut]]
    /\ UNCHANGED <<logs, lock, prov, blocking, get>>

\* Lines 248-252: the timeout elapses first; the JoinHandle is dropped and
\* the closure is left to run.
TaskElapsed(j) ==
    /\ task[j].pc = "waiting"
    /\ TimerDue(j)
    /\ task' = [task EXCEPT ![j] = [@ EXCEPT !.pc = "lock", !.job_log = JobLogTimedOut]]
    /\ UNCHANGED <<logs, lock, prov, blocking, get>>

\* Lines 220 and 255: state_clone.logs.lock().await resolves.
TaskAcquire(j) ==
    /\ task[j].pc = "lock"
    /\ lock = Free
    /\ lock' = <<"task", j>>
    /\ task' = [task EXCEPT ![j].pc = "holding"]
    /\ UNCHANGED <<logs, prov, blocking, get>>

\* Lines 220 and 255: insert(job_id_clone, job_log), drop the guard, end.
TaskWrite(j) ==
    /\ task[j].pc = "holding"
    /\ lock = <<"task", j>>
    /\ logs' = Insert(logs, JobIdOf(j), task[j].job_log)
    /\ lock' = Free
    /\ task' = [task EXCEPT ![j].pc = "done"]
    /\ UNCHANGED <<prov, blocking, get>>

(***************************************************************************)
(* The blocking pool and the subprocess (line 227, cmd.output())           *)
(***************************************************************************)
PoolBusy == Cardinality({ k \in Provs : blocking[k].st = "running" }) >= PoolSize

\* A pool thread takes the closure: bash is spawned, or cmd.output() fails
\* with an io::Error, or the closure ends in a JoinError.
BlockingStart(j) ==
    /\ blocking[j].st = "queued"
    /\ ~PoolBusy
    /\ \E outcome \in {"spawned", "io_error", "join_error"} :
         blocking' = [blocking EXCEPT ![j] =
            IF outcome = "spawned" THEN [@ EXCEPT !.st = "running", !.ran = 0]
            ELSE IF outcome = "io_error"
            THEN [@ EXCEPT !.st = "finished", !.result = IoErrorResult]
            ELSE [@ EXCEPT !.st = "finished", !.result = JoinErrorResult]]
    /\ UNCHANGED <<logs, lock, prov, task, get>>

\* Variant in which the Output of a subprocess that exits after the timeout
\* still reaches the store.
ProcExitOverwrites(j) ==
    /\ blocking[j].st = "running"
    /\ \E st \in ExitStatuses, out \in Outputs :
         /\ blocking' = [blocking EXCEPT ![j] =
               [@ EXCEPT !.st = "finished",
                         !.result = IF task[j].pc = "waiting"
                                    THEN OutputResult(st, out[1], out[2])
                                    ELSE DroppedResult(st)]]
         /\ logs' = IF task[j].pc = "done"
                    THEN Insert(logs, JobIdOf(j),
                                JobLogOfResult(OutputResult(st, out[1], out[2])))
                    ELSE logs
    /\ UNCHANGED <<lock, prov, task, get>>

\* The subprocess ends and cmd.output() returns what it collected, to the
\* waiting task or, once the task has timed out, to nobody.  Nothing but
\* the closure's result changes.
ProcExit(j) ==
    /\ blocking[j].st = "running"
    /\ \E st \in ExitStatuses, out \in Outputs :
         blocking' = [blocking EXCEPT ![j] =
            [@ EXCEPT !.st = "finished",
                      !.result = IF task[j].pc = "waiting"
                                 THEN OutputResult(st, out[1], out[2])
                                 ELSE DroppedResult(st)]]
    /\ UNCHANGED <<logs, lock, prov, task, get>>

(***************************************************************************)
(* Time.  One tick is TickSecs seconds.  A waiting task whose result is    *)
(* ready or whose deadline is reached resumes before the clock moves on.   *)
(***************************************************************************)
\* The subprocess of job j has been running for more than TIMEOUT_SECS.
RanOver(j) == blocking[j].ran > LastTickWithin

Tick ==
    /\ \A j \in Provs :
         task[j].pc = "waiting" => ~TimerDue(j) /\ blocking[j].st # "finished"
    /\ \E j \in Provs :
         \/ task[j].pc = "waiting"
         \/ blocking[j].st = "running" /\ ~RanOver(j)
    /\ task' = [j \in Provs |->
                  IF task[j].pc = "waiting"
                  THEN [task[j] EXCEPT !.elapsed = @ + 1] ELSE task[j]]
    /\ blocking' = [j \in Provs |->
                  IF blocking[j].st = "running" /\ ~RanOver(j)
                  THEN [blocking[j] EXCEPT !.ran = @ + 1] ELSE blocking[j]]
    /\ UNCHANGED <<logs, lock, prov, get>>

(***************************************************************************)
(* get_logs (lines 264-279)                                                *)
(***************************************************************************)
Returned(job_id) ==
    { r \in Provs : prov[r].resp.code = 200 /\ prov[r].resp.body.job_id = job_id }

\* Lines 268-273: parse the identifier, then await the store lock.  known
\* records whether a provision response had already returned this identifier.
GetLogs(g, job_id) ==
    /\ get[g].pc = "idle"
    /\ IF g = 1 THEN TRUE ELSE get[g - 1].pc # "idle"
    /\ IF ~ParseStr(job_id).ok
       THEN get' = [get EXCEPT ![g] = [@ EXCEPT !.pc = "done", !.job_id = job_id,
                        !.resp = BadRequest("Invalid job ID format")]]
       ELSE get' = [get EXCEPT ![g] = [@ EXCEPT !.pc = "lock", !.job_id = job_id,
                        !.known = Returned(job_id) # {}]]
    /\ UNCHANGED <<logs, lock, prov, task, blocking>>

\* Variant of line 273 that enters the critical section without waiting for
\* the Mutex to be free.
GetAcquireNoWait(g) ==
    /\ get[g].pc = "lock"
    /\ lock' = <<"get", g>>
    /\ get' = [get EXCEPT ![g].pc = "holding"]
    /\ UNCHANGED <<logs, prov, task, blocking>>

GetAcquire(g) ==
    /\ get[g].pc = "lock"
    /\ lock = Free
    /\ lock' = <<"get", g>>
    /\ get' = [get EXCEPT ![g].pc = "holding"]
    /\ UNCHANGED <<logs, prov, task, blocking>>

\* Variant of lines 274-278 that looks the parsed value up, whatever the
\* textual form of the identifier in the request.
GetReadByValue(g) ==
    /\ get[g].pc = "holding"
    /\ lock = <<"get", g>>
    /\ get' = [get EXCEPT ![g] = [@ EXCEPT !.pc = "done",
                   !.resp = IF JobIdOf(get[g].job_id.val) \in DOMAIN logs
                            THEN OkJson(logs[JobIdOf(get[g].job_id.val)])
                            ELSE NotFound]]
    /\ lock' = Free
    /\ UNCHANGED <<logs, prov, task, blocking>>

\* Variant of lines 274-278 that answers with a fresh JobLog for a known id.
GetReadDefault(g) ==
    /\ get[g].pc = "holding"
    /\ lock = <<"get", g>>
    /\ get' = [get EXCEPT ![g] = [@ EXCEPT !.pc = "done",
                   !.resp = IF get[g].job_id \in DOMAIN logs
                            THEN OkJson(JobLogDefault)
                            ELSE NotFound]]
    /\ lock' = Free
    /\ UNCHANGED <<logs, prov, task, blocking>>

\* Lines 274-278: look the identifier up, clone the log, drop the guard.
GetRead(g) ==
    /\ get[g].pc = "holding"
    /\ lock = <<"get", g>>
    /\ get' = [get EXCEPT ![g] = [@ EXCEPT !.pc = "done",
                   !.resp = IF get[g].job_id \in DOMAIN logs
                            THEN OkJson(logs[get[g].job_id])
                            ELSE NotFound]]
    /\ lock' = Free
    /\ UNCHANGED <<logs, prov, task, blocking>>

GetCancel(g) ==
    /\ get[g].pc = "lock"
    /\ get' = [get EXCEPT ![g].pc = "cancelled"]
    /\ UNCHANGED <<logs, lock, prov, task, blocking>>

\* The client has its answer (or has gone): the slot serves the next request.
GetClose(g) ==
    /\ get[g].pc \in {"done", "cancelled"}
    /\ get' = [get EXCEPT ![g] = [pc |-> "idle", job_id |-> JobIdOf(0),
                                  known |-> FALSE, resp |-> NoResp]]
    /\ UNCHANGED <<logs, lock, prov, task, blocking>>

(***************************************************************************)
(* Specifications.  Spec is the whole service.  JobNext is the service     *)
(* with no get_logs traffic: the steps that create a job and carry it to   *)
(* its terminal record.                                                    *)
(***************************************************************************)
JobNext ==
    \/ \E r \in Provs, p \in ScriptPaths, a \in ArgLists : Provision(r, p, a)
    \/ \E r \in Provs : ProvAcquire(r)
    \/ \E r \in Provs : ProvInsert(r)
    \/ \E r \in Provs : ProvSpawn(r)
    \/ \E r \in Provs : ProvCancel(r)
    \/ \E j \in Provs : TaskCheckArgs(j)
    \/ \E j \in Provs : TaskOutput(j)
    \/ \E j \in Provs : TaskElapsed(j)
    \/ \E j \in Provs : TaskAcquire(j)
    \/ \E j \in Provs : TaskWrite(j)
    \/ \E j \in Provs : BlockingStart(j)
    \/ \E j \in Provs : ProcExit(j)
    \/ Tick

GetNext ==
    \/ \E g \in Gets, id \in JobIdStrings : GetLogs(g, id)
    \/ \E g \in Gets : GetAcquire(g)
    \/ \E g \in Gets : GetRead(g)
    \/ \E g \in Gets : GetCancel(g)
    \/ \E g \in Gets : GetClose(g)

Next == JobNext \/ GetNext

Spec == Init /\ [][Next]_vars

\* The runtime keeps polling a spawned task that can run, a pool thread
\* takes a queued closure, a handler that holds the store lock runs on to
\* its release, and time passes.  Clients need not send requests and a
\* subprocess need not exit.
TaskStep(j) ==
    \/ TaskCheckArgs(j)
    \/ TaskOutput(j)
    \/ TaskElapsed(j)
    \/ TaskAcquire(j)
    \/ TaskWrite(j)

Fairness ==
    /\ \A j \in Provs : WF_vars(TaskStep(j))
    /\ \A j \in Provs : WF_vars(BlockingStart(j))
    /\ \A r \in Provs : WF_vars(ProvInsert(r) \/ ProvSpawn(r))
    /\ WF_vars(Tick)

FairSpec == Init /\ [][JobNext]_vars /\ Fairness

Accepted(j) == JobIdOf(j) \in DOMAIN logs
Stored(j) == logs[JobIdOf(j)]
Range(seq) == { seq[i] : i \in 1..Len(seq) }

(***************************************************************************)
(* C1: a record of the store that is no longer Running never changes in    *)
(* any field and is never removed, whatever step is taken (the late exit   *)
(* of a timed-out job's subprocess included); so a record leaves Running   *)
(* at most once.                                                           *)
(***************************************************************************)
C1_TerminalIsFinal ==
    [][\A id \in DOMAIN logs :
          /\ id \in DOMAIN logs'
          /\ logs[id].status # "running" => logs'[id] = logs[id]]_vars

\* A timed-out job whose subprocess has exited afterwards.
C1_Witness ==
    \E j \in Provs :
        /\ Accepted(j)
        /\ Stored(j).status = "timedout"
        /\ blocking[j].result.kind = "dropped"

(***************************************************************************)
(* C2: once provision has answered with a job identifier, the store holds  *)
(* a record under it, and a get_logs issued for it after that answer is    *)
(* never answered 404.                                                     *)
(***************************************************************************)
C2_StoredBeforeResponse ==
    /\ \A r \in Provs : prov[r].resp.code = 200 => JobIdOf(r) \in DOMAIN logs
    /\ \A g \in Gets : get[g].pc = "done" /\ get[g].known => get[g].resp.code # 404

C2_Witness ==
    \E g \in Gets : get[g].pc = "done" /\ get[g].known /\ get[g].resp.code = 200

(***************************************************************************)
(* C3 as claimed: a get_logs issued for a returned identifier and answered *)
(* before any time has passed for the job reports status running.          *)
(***************************************************************************)
NoTimePassed(j) == task[j].elapsed = 0 /\ blocking[j].ran = 0

C3_RunningRightAfter ==
    \A g \in Gets :
        (get[g].pc = "done" /\ get[g].known /\ NoTimePassed(get[g].job_id.val))
            => IF get[g].resp.code = 200
               THEN get[g].resp.body.status = "running"
               ELSE FALSE

(***************************************************************************)
(* C3 amended: a get_logs issued for a returned identifier is answered 200 *)
(* with the Running placeholder as long as the job's background task has   *)
(* not made its terminal write, and otherwise with the record that task    *)
(* wrote.                                                                  *)
(***************************************************************************)
C3_RunningUntilWritten ==
    \A g \in Gets :
        (get[g].pc = "done" /\ get[g].known)
            => IF get[g].resp.code = 200
               THEN LET j == get[g].job_id.val IN
                    /\ task[j].pc # "done" => get[g].resp.body = JobLogDefault
                    /\ get[g].resp.body.status # "running"
                          => /\ task[j].pc = "done"
                             /\ get[g].resp.body = task[j].job_log
               ELSE FALSE

\* The poll comes right after the response and already reads Failed.
C3_Witness ==
    \E g \in Gets :
        /\ get[g].pc = "done" /\ get[g].known
        /\ NoTimePassed(get[g].job_id.val)
        /\ get[g].resp.code = 200
        /\ get[g].resp.body.status = "failed"

(***************************************************************************)
(* C4: a provision request whose script path contains ".." or starts with  *)
(* "/", names no executable regular file of the allowed directory, or      *)
(* names a script holding a denylisted substring, is answered 400; no      *)
(* record is inserted for it, no task and no subprocess is started, and    *)
(* the step that rejects it changes nothing but the request itself.        *)
(***************************************************************************)
C4_MustReject(p) ==
    \/ \E i \in 1..Len(p) : i < Len(p) /\ p[i] = "." /\ p[i + 1] = "."
    \/ Len(p) > 0 /\ p[1] = "/"
    \/ LET full == AllowedDir \o <<"/">> \o p IN
       \/ \A f \in FileTable : f.path # full
       \/ \E f \in FileTable :
            /\ f.path = full
            /\ \/ ~f.is_file
               \/ ExecBits(f.mode) = 0
               \/ \E k \in 1..Len(dangerous_patterns) :
                     Contains(f.content, dangerous_patterns[k].pattern)

C4_RejectedCreatesNothing ==
    /\ [](\A r \in Provs :
            (prov[r].pc # "idle" /\ C4_MustReject(prov[r].script_path))
                => /\ prov[r].pc = "done"
                   /\ prov[r].resp.code = 400
                   /\ JobIdOf(r) \notin DOMAIN logs
                   /\ task[r].pc = "none"
                   /\ blocking[r].st = "none")
    /\ [][\A r \in Provs :
            (prov[r].pc = "idle" /\ prov'[r].pc = "done")
                => /\ prov'[r].resp.code = 400
                   /\ UNCHANGED <<logs, lock, task, blocking, get>>]_vars

\* One request rejected for "..", another for a leading "/".
C4_Witness ==
    \E r1 \in Provs, r2 \in Provs :
        /\ prov[r1].resp.code = 400 /\ prov[r1].script_path = <<".", ".", "/", "x">>
        /\ prov[r2].resp.code = 400 /\ prov[r2].script_path = <<"/", "x">>
        /\ logs = << >>

(***************************************************************************)
(* C5: a job accepted with an argument that holds ";", "|" or ".." is      *)
(* answered as running; no closure is queued and no subprocess is spawned  *)
(* for it; and its record becomes Failed with the message "Invalid         *)
(* argument detected", no exit code and empty output.                      *)
(***************************************************************************)
C5_Marked(arg) ==
    \E i \in 1..Len(arg) :
        \/ arg[i] \in {";", "|"}
        \/ i < Len(arg) /\ arg[i] = "." /\ arg[i + 1] = "."

C5_HasMarked(args) == \E i \in 1..Len(args) : C5_Marked(args[i])

C5_ArgFailure ==
    [status |-> "failed", stdout |-> << >>, stderr |-> << >>,
     exit_code |-> None, error_message |-> Some("Invalid argument detected")]

C5_InvalidArgumentFails ==
    /\ [](\A j \in Provs :
            C5_HasMarked(prov[j].args)
                => /\ blocking[j].st = "none"
                   /\ prov[j].pc = "done"
                         => /\ prov[j].resp.code = 200
                            /\ prov[j].resp.body.status = "running"
                   /\ Accepted(j) => Stored(j) \in {JobLogDefault, C5_ArgFailure})
    /\ \A j \in Provs :
          (Accepted(j) /\ C5_HasMarked(prov[j].args))
              ~> (Accepted(j) /\ Stored(j) = C5_ArgFailure)

C5_Witness ==
    \E j \in Provs :
        /\ prov[j].resp.code = 200
        /\ C5_HasMarked(prov[j].args)
        /\ Accepted(j) /\ Stored(j) = C5_ArgFailure
        /\ blocking[j].st = "none"

(***************************************************************************)
(* C6 as claimed: once the background task of a job whose script exited    *)
(* with status 0 has ended, the record is Completed with exit_code 0 and   *)
(* its stdout is the script's output.                                      *)
(***************************************************************************)
Exited(j) == blocking[j].st = "finished" /\ blocking[j].result.kind \in {"output", "dropped"}

C6_ExitZeroCompletes ==
    \A j \in Provs :
        (task[j].pc = "done" /\ Exited(j) /\ blocking[j].result.status.code = Some(0))
            => /\ Stored(j).status = "completed"
               /\ Stored(j).exit_code = Some(0)
               /\ blocking[j].result.kind = "output"
               /\ Utf8Encode(Stored(j).stdout) = blocking[j].result.stdout

(***************************************************************************)
(* C6 amended: when the script of a job exits with status 0 and the        *)
(* waiting task has that result before the timeout has elapsed, the record *)
(* becomes Completed with exit_code 0, no error message, and stdout the    *)
(* lossy UTF-8 decoding of the script's output: the output itself when it  *)
(* is valid UTF-8, and U+FFFD in place of what is not.                     *)
(***************************************************************************)
InTime(j) ==
    /\ task[j].pc = "waiting"
    /\ ~TimerDue(j)
    /\ blocking[j].st = "finished"
    /\ blocking[j].result.kind = "output"

C6_Decoded(text, bytes) ==
    /\ text = FromUtf8Lossy(bytes)
    /\ REPLACEMENT_CHARACTER \notin Range(text) => Utf8Encode(text) = bytes
    /\ (\A i \in 1..Len(bytes) : bytes[i] < 128) => text = bytes

C6_ExitZeroInTimeCompletes ==
    \A j \in Provs :
        (InTime(j) /\ blocking[j].result.status.code = Some(0))
            ~> /\ Accepted(j)
               /\ blocking[j].result.kind = "output"
               /\ Stored(j).status = "completed"
               /\ Stored(j).exit_code = Some(0)
               /\ Stored(j).error_message = None
               /\ C6_Decoded(Stored(j).stdout, blocking[j].result.stdout)

\* A Completed record whose stdout is not the script's bytes.
C6_Witness ==
    \E j \in Provs :
        /\ Accepted(j) /\ Stored(j).status = "completed"
        /\ Stored(j).exit_code = Some(0)
        /\ REPLACEMENT_CHARACTER \in Range(Stored(j).stdout)

(***************************************************************************)
(* C7 as claimed: once the background task of a job whose script ended     *)
(* with a non-success status has ended, the record is Failed with a        *)
(* non-zero exit_code and no error_message.                                *)
(***************************************************************************)
C7_NonSuccessFails ==
    \A j \in Provs :
        (task[j].pc = "done" /\ Exited(j) /\ blocking[j].result.status.code # Some(0))
            => /\ Stored(j).status = "failed"
               /\ Stored(j).exit_code # None
               /\ Stored(j).exit_code # Some(0)
               /\ Stored(j).error_message = None

(***************************************************************************)
(* C7 amended: when the script of a job ends with a non-success status and *)
(* the waiting task has that result before the timeout has elapsed, the    *)
(* record becomes Failed with the decoded output and no error_message; its *)
(* exit_code is the script's non-zero exit code, and is absent when the    *)
(* script was ended by a signal.                                           *)
(***************************************************************************)
C7_NonSuccessInTimeFails ==
    \A j \in Provs :
        (InTime(j) /\ blocking[j].result.status.code # Some(0))
            ~> /\ Accepted(j)
               /\ blocking[j].result.kind = "output"
               /\ Stored(j).status = "failed"
               /\ Stored(j).exit_code = blocking[j].result.status.code
               /\ Stored(j).exit_code \in { Some(n) : n \in 1..MaxExit } \cup {None}
               /\ Stored(j).error_message = None
               /\ Stored(j).stdout = FromUtf8Lossy(blocking[j].result.stdout)
               /\ Stored(j).stderr = FromUtf8Lossy(blocking[j].result.stderr)

\* A Failed record of a script ended by a signal: no exit code, no message.
C7_Witness ==
    \E j \in Provs :
        /\ Accepted(j) /\ Stored(j).status = "failed"
        /\ blocking[j].result.kind = "output"
        /\ Stored(j).exit_code = None
        /\ Stored(j).error_message = None

(***************************************************************************)
(* C8: a job whose subprocess has run for more than the 300 seconds of the *)
(* timeout gets the record TimedOut, with no exit code and the timeout     *)
(* message, and keeps it when the subprocess exits later.                  *)
(***************************************************************************)
C8_TimedOut ==
    [status |-> "timedout", stdout |-> << >>, stderr |-> << >>,
     exit_code |-> None,
     error_message |-> Some("Script execution timed out after 5 minutes")]

C8_LongScriptTimesOut ==
    /\ [](\A j \in Provs :
            RanOver(j)
                => /\ task[j].pc \in {"lock", "holding", "done"}
                   /\ task[j].job_log = C8_TimedOut
                   /\ task[j].pc = "done" => Stored(j) = C8_TimedOut)
    /\ \A j \in Provs : RanOver(j) ~> (Accepted(j) /\ Stored(j) = C8_TimedOut)

\* The subprocess ran past the timeout and then exited; the record stands.
C8_Witness ==
    \E j \in Provs :
        /\ RanOver(j)
        /\ blocking[j].result.kind = "dropped"
        /\ Accepted(j) /\ Stored(j) = C8_TimedOut

(***************************************************************************)
(* C9: every accepted job (its Running record was inserted) eventually has *)
(* a terminal record in the store, whatever its subprocess does.           *)
(***************************************************************************)
C9_EventuallyTerminal ==
    \A j \in Provs : Accepted(j) ~> (Accepted(j) /\ IsTerminal(Stored(j).status))

\* A terminal record of a job whose subprocess has not exited.
C9_Witness ==
    \E j \in Provs :
        /\ Accepted(j) /\ IsTerminal(Stored(j).status)
        /\ blocking[j].st = "running"

(***************************************************************************)
(* C10: a get_logs that reads a terminal record answers 200 with exactly   *)
(* that record, and every answer that carries a terminal record equals the *)
(* record the store holds for that identifier from then on.                *)
(***************************************************************************)
C10_TerminalReadsAgree ==
    /\ [](\A g \in Gets :
            (get[g].pc = "done" /\ get[g].resp.code = 200)
                => (get[g].resp.body.status # "running"
                       => get[g].resp.body = logs[get[g].job_id]))
    /\ [][\A g \in Gets :
            (/\ get[g].pc = "holding" /\ get'[g].pc = "done"
             /\ get[g].job_id \in DOMAIN logs
             /\ logs[get[g].job_id].status # "running")
                => /\ get'[g].resp.code = 200
                   /\ get'[g].resp.body = logs[get[g].job_id]
                   /\ logs' = logs]_vars

\* A terminal record read while the other job is still under way.
C10_Witness ==
    \E g \in Gets, k \in Provs :
        /\ get[g].pc = "done" /\ get[g].resp.code = 200
        /\ IsTerminal(get[g].resp.body.status)
        /\ k # get[g].job_id.val
        /\ task[k].pc = "waiting"

(***************************************************************************)
(* C11: a get_logs request whose identifier is not in the form in which    *)
(* provision returns identifiers (the hyphenated form) is answered 400     *)
(* and never reaches the store: it does not wait for the lock or hold it.  *)
(***************************************************************************)
C11_NonCanonicalRejected ==
    \A g \in Gets :
        (get[g].pc # "idle" /\ get[g].job_id.form # "hyphenated")
            => (get[g].pc = "done" /\ get[g].resp.code = 400)

\* Some provision request has inserted a record under the string id: its
\* handler is past the insert of line 202.
C12_Inserted(id) ==
    \E r \in Provs :
        /\ JobIdOf(r) = id
        /\ prov[r].pc = "spawn" \/ (prov[r].pc = "done" /\ prov[r].resp.code = 200)

(***************************************************************************)
(* C12: a get_logs request whose identifier parses answers 404 exactly     *)
(* when no provision request has inserted a record under that identifier,  *)
(* and otherwise 200 with the record the store holds at that moment; no    *)
(* step removes a record from the store.                                   *)
(***************************************************************************)
C12_FoundIffInserted ==
    [][/\ \A id \in DOMAIN logs : id \in DOMAIN logs'
       /\ \A g \in Gets :
            (get[g].pc = "holding" /\ get'[g].pc = "done")
                => IF C12_Inserted(get[g].job_id)
                   THEN /\ get[g].job_id \in DOMAIN logs
                        /\ get'[g].resp = [code |-> 200, body |-> logs[get[g].job_id]]
                   ELSE get'[g].resp.code = 404]_vars

\* 404 for the well-formed identifier of a job that was never created,
\* while the store holds another job.
C12_Witness ==
    \E g \in Gets :
        /\ get[g].pc = "done" /\ get[g].resp.code = 404
        /\ get[g].job_id.form = "hyphenated"
        /\ get[g].job_id \notin DOMAIN logs
        /\ DOMAIN logs # {}

\* The handlers and tasks that are inside the critical section of the store.
C13_Holders ==
    { <<"prov", r>> : r \in { x \in Provs : prov[x].pc = "holding" } }
    \cup { <<"task", j>> : j \in { x \in Provs : task[x].pc = "holding" } }
    \cup { <<"get", g>> : g \in { x \in Gets : get[x].pc = "holding" } }

\* The records a reader may see for job j: the placeholder, or the one
\* terminal record its task has written, whole.
C13_WholeRecords(j) ==
    { [status |-> "running", stdout |-> << >>, stderr |-> << >>,
       exit_code |-> None, error_message |-> None] }
    \cup (IF task[j].pc = "done" /\ IsTerminal(task[j].job_log.status)
          THEN {task[j].job_log} ELSE {})

(***************************************************************************)
(* C13: at most one handler or task is inside the store's critical         *)
(* section, and it is the holder of the lock; the store changes only in a  *)
(* step of that holder (the placeholder insert of a provision handler or   *)
(* the terminal write of a task, of that job's record alone); a get_logs   *)
(* read is a step of the holder too and returns either the whole Running   *)
(* placeholder or the whole terminal record of the job's task.             *)
(***************************************************************************)
C13_MutuallyExclusive ==
    /\ [](/\ Cardinality(C13_Holders) <= 1
          /\ \A h \in C13_Holders : lock = h
          /\ lock # Free => lock \in C13_Holders)
    /\ [][/\ logs' # logs =>
               \E j \in Provs :
                   /\ lock \in {<<"prov", j>>, <<"task", j>>}
                   /\ lock' = Free
                   /\ \A id \in DOMAIN logs : id # JobIdOf(j) => logs'[id] = logs[id]
                   /\ logs'[JobIdOf(j)] \in C13_WholeRecords(j)'
          /\ \A g \in Gets :
               (get[g].pc = "holding" /\ get'[g].pc = "done")
                   => /\ lock = <<"get", g>>
                      /\ logs' = logs
                      /\ get'[g].resp.code = 200
                            => get'[g].resp.body
                                  \in C13_WholeRecords(get[g].job_id.val)]_vars

\* A reader inside the critical section while a task with its terminal
\* record and another provision handler wait for the lock.
C13_Witness ==
    \E g \in Gets, j \in Provs, r \in Provs :
        /\ get[g].pc = "holding"
        /\ get[g].job_id = JobIdOf(j)
        /\ task[j].pc = "lock"
        /\ prov[r].pc = "lock"

\* How far the background task of a job has come.
C14_Progress(pc) ==
    CASE pc = "none" -> 0
      [] pc = "start" -> 1
      [] pc = "waiting" -> 2
      [] pc = "lock" -> 3
      [] pc = "holding" -> 4
      [] pc = "done" -> 5

(***************************************************************************)
(* C14: once the background task of a job has been started, the request    *)
(* that started it has returned and no step (the cancellation of a request *)
(* included) changes that request or sets the task back; the task goes on  *)
(* through its argument check, wait and store write, and the job's record  *)
(* reaches a terminal status.                                              *)
(***************************************************************************)
C14_DetachedFromRequest ==
    /\ [][\A j \in Provs :
            task[j].pc # "none"
                => /\ prov[j].pc = "done"
                   /\ prov'[j] = prov[j]
                   /\ C14_Progress(task'[j].pc) >= C14_Progress(task[j].pc)]_vars
    /\ \A j \in Provs :
          (task[j].pc # "none")
              ~> (task[j].pc = "done" /\ Accepted(j) /\ IsTerminal(Stored(j).status))

\* A job under way after its request has returned, while another request
\* has been cancelled.
C14_Witness ==
    \E j \in Provs, r \in Provs :
        /\ task[j].pc = "waiting"
        /\ prov[j].pc = "done"
        /\ blocking[j].st = "running"
        /\ prov[r].pc = "cancelled"

\* The request of slot r passed the path validation, so its script was read.
C15_Scanned(r) ==
    /\ prov[r].pc # "idle"
    /\ ValidateScriptPath(prov[r].script_path, AllowedDir).ok
C15_Content(r) == FileAt(Join(AllowedDir, prov[r].script_path)).content
C15_Cites(r, i) ==
    /\ prov[r].pc = "done"
    /\ prov[r].resp.code = 400
    /\ prov[r].resp.body.pattern = dangerous_patterns[i].pattern
    /\ prov[r].resp.body.description = dangerous_patterns[i].description

(***************************************************************************)
(* C15 as claimed: for every denylist entry that a request's script        *)
(* contains, the request is rejected with an error that cites that entry,  *)
(* also when the content contains other entries.                           *)
(***************************************************************************)
C15_EveryContainedCited ==
    \A r \in Provs :
        C15_Scanned(r)
            => \A i \in 1..Len(dangerous_patterns) :
                  Contains(C15_Content(r), dangerous_patterns[i].pattern)
                      => C15_Cites(r, i)

(***************************************************************************)
(* C15 amended: a request whose script content contains some denylist      *)
(* entry is rejected with 400, and the error cites the pattern and the     *)
(* description of the first entry, in list order, that the content         *)
(* contains.                                                               *)
(***************************************************************************)
C15_FirstContainedCited ==
    \A r \in Provs :
        C15_Scanned(r)
            => \A i \in 1..Len(dangerous_patterns) :
                  (/\ Contains(C15_Content(r), dangerous_patterns[i].pattern)
                   /\ \A k \in 1..(i - 1) :
                         ~Contains(C15_Content(r), dangerous_patterns[k].pattern))
                      => /\ C15_Cites(r, i)
                         /\ prov[r].resp.body.msg = "Blocked dangerous pattern"
                         /\ JobIdOf(r) \notin DOMAIN logs

\* A rejected script that contains two entries of the list: "rm -rf /" is
\* cited, "rm -rf /*" is contained as well.
C15_Witness ==
    \E r \in Provs :
        /\ C15_Scanned(r)
        /\ prov[r].pc = "done" /\ prov[r].resp.code = 400
        /\ prov[r].resp.body.pattern = <<"r", "m", " ", "-", "r", "f", " ", "/">>
        /\ Contains(C15_Content(r), <<"r", "m", " ", "-", "r", "f", " ", "/", "*">>)

(***************************************************************************)
(* C16: a job's record is TimedOut only if its subprocess has been spawned *)
(* and has had the whole 300 seconds of the timeout since that spawn.      *)
(***************************************************************************)
C16_TimedOutAfterSpawn ==
    \A j \in Provs :
        (Accepted(j) /\ Stored(j).status = "timedout")
            => /\ blocking[j].st \in {"running", "finished"}
               /\ blocking[j].result.kind \in {"none", "dropped"}
               /\ blocking[j].ran >= DueTicks

\* A job recorded as TimedOut whose closure is still in the queue of the
\* blocking pool, behind the subprocess of another job: bash was never
\* spawned for it.
C16_Witness ==
    \E j \in Provs, k \in Provs :
        /\ k # j
        /\ blocking[k].st = "running"
        /\ blocking[j].st = "queued"
        /\ Accepted(j) /\ Stored(j).status = "timedout"

(***************************************************************************)
(* C17: a record of the store has an exit_code only if the job's           *)
(* subprocess exited and handed its status to the task, the record is      *)
(* Completed or Failed, and the code is that status's code; the record of  *)
(* a job that is Running or TimedOut, that had a rejected argument, or     *)
(* whose process could not be started has none.                            *)
(***************************************************************************)
C17_ExitCodeOnlyAfterExit ==
    \A j \in Provs :
        Accepted(j)
            => /\ Stored(j).exit_code # None
                    => /\ Stored(j).status \in {"completed", "failed"}
                       /\ blocking[j].st = "finished"
                       /\ blocking[j].result.kind = "output"
                       /\ blocking[j].result.status.code = Stored(j).exit_code
               /\ Stored(j).status \in {"running", "timedout"}
                    => Stored(j).exit_code = None
               /\ (\E i \in 1..Len(prov[j].args) :
                      \/ Contains(prov[j].args[i], <<".", ".">>)
                      \/ Contains(prov[j].args[i], <<";">>)
                      \/ Contains(prov[j].args[i], <<"|">>))
                    => Stored(j).exit_code = None
               /\ blocking[j].result.kind \in {"io_error", "join_error"}
                    => Stored(j).exit_code = None

\* One job Failed with the exit code of its script, the other Failed for a
\* rejected argument and without a code.
C17_Witness ==
    \E j \in Provs, k \in Provs :
        /\ Accepted(j) /\ Stored(j).status = "failed"
        /\ Stored(j).exit_code = Some(1)
        /\ Accepted(k) /\ Stored(k).status = "failed"
        /\ Stored(k).error_message = Some("Invalid argument detected")
        /\ Stored(k).exit_code = None

\* Whoever holds the store lock can make its access and release it now.
C18_HolderCanRelease ==
    \/ \E r \in Provs : lock = <<"prov", r>> /\ ENABLED ProvInsert(r)
    \/ \E k \in Provs : lock = <<"task", k>> /\ ENABLED TaskWrite(k)
    \/ \E g \in Gets : lock = <<"get", g>> /\ ENABLED GetRead(g)

\* Whoever awaits the store lock can take it now.
C18_WaiterCanAcquire ==
    /\ \A r \in Provs : prov[r].pc = "lock" => ENABLED ProvAcquire(r)
    /\ \A k \in Provs : task[k].pc = "lock" => ENABLED TaskAcquire(k)
    /\ \A g \in Gets : get[g].pc = "lock" => ENABLED GetAcquire(g)

(***************************************************************************)
(* C18: a task that waits for its subprocess or its timeout does not hold  *)
(* the store lock, and in every state where some task waits the store is   *)
(* available: either the lock is free and every provision handler,         *)
(* get_logs handler and task that awaits it can take it at once, or its    *)
(* holder can make its access and release it at once.  No state has a      *)
(* store access that cannot proceed.                                       *)
(***************************************************************************)
C18_WaitingHoldsNothing ==
    (\E j \in Provs : task[j].pc = "waiting")
        => /\ \A j \in Provs : task[j].pc = "waiting" => lock # <<"task", j>>
           /\ IF lock = Free THEN C18_WaiterCanAcquire ELSE C18_HolderCanRelease

\* Job j waits for its running subprocess while the store lock is held by
\* a get_logs request for j and another provision request awaits it.
C18_Witness ==
    \E j \in Provs, r \in Provs, g \in Gets :
        /\ task[j].pc = "waiting" /\ blocking[j].st = "running"
        /\ get[g].pc = "holding" /\ get[g].job_id = JobIdOf(j)
        /\ prov[r].pc = "lock"

(***************************************************************************)
(* C19: every record of the store that is Failed or TimedOut has exactly   *)
(* one of exit_code and error_message, however the subprocess ended.       *)
(***************************************************************************)
C19_FailureHasOneCause ==
    \A j \in Provs :
        (Accepted(j) /\ Stored(j).status \in {"failed", "timedout"})
            => (Stored(j).exit_code # None) # (Stored(j).error_message # None)

(***************************************************************************)
(* C20: a cancelled provision request has inserted no record and started   *)
(* no task; a record whose task has not been started exists only while its *)
(* handler is between the insert and the spawn, where it cannot be         *)
(* cancelled, and that task is then started: no record stays without a     *)
(* task.                                                                   *)
(***************************************************************************)
C20_AllOrNothing ==
    /\ [](\A r \in Provs :
            /\ prov[r].pc = "cancelled"
                  => /\ ~Accepted(r)
                     /\ task[r].pc = "none"
                     /\ blocking[r].st = "none"
            /\ (Accepted(r) /\ task[r].pc = "none") => prov[r].pc = "spawn"
            /\ task[r].pc # "none" => Accepted(r))
    /\ [][\A r \in Provs :
            (Accepted(r) /\ task[r].pc = "none") => prov'[r].pc # "cancelled"]_vars
    /\ \A r \in Provs : Accepted(r) ~> (task[r].pc # "none")

\* A request cancelled at the lock().await, which the job of another
\* request held up: that job has its record and its task.
C20_Witness ==
    \E r \in Provs, k \in Provs :
        /\ prov[r].pc = "cancelled"
        /\ ~Accepted(r) /\ task[r].pc = "none"
        /\ Accepted(k) /\ task[k].pc # "none"

====
